---- MODULE Spec2Model ----
(***************************************************************************)
(* A model of site_scons/site_init.py: the per-directory ModelBuilder of   *)
(* the monoscad build scripts.                                             *)
(*                                                                         *)
(* Strings.  A Python str is modelled as a sequence of atoms.  The atoms   *)
(* are the substrings the code tests for ("images", "readme", ".stl",      *)
(* ".pdf", ".scad", "SConscript", "/") and a few neutral names ("x", "m",  *)
(* "sub", ...).  No atom is a substring of another atom or of a            *)
(* concatenation of others, so str.startswith, str.endswith and `in` on    *)
(* the Python string are the same tests on the sequence of atoms:          *)
(* <<"images","x",".stl">> is the string "imagesx.stl".                    *)
(***************************************************************************)
EXTENDS Integers, Sequences, FiniteSets, TLC

VARIABLES
    prev_ref,        \* env["PREV_REF"]: the reference revision, <<>> when none
    model_dir,       \* self.model_dir
    build_opts,      \* [targets |-> BUILD_TARGETS, clean |-> GetOption("clean")]
    library_files,   \* self.library_files: the symlinked library files
    allowed,         \* cache of _allowed_by_ref_filter: "unset", "yes", "no"
    diff_out,        \* outcome of the git diff query, [kind |-> "none"] before it
    log,             \* what the change filter printed
    aborted,         \* "no", or the call whose exception ended the build
    last_op,         \* the operation the last step ran
    ncalls,          \* declaration calls made so far
    zip_dirs,        \* self.zip_dirs
    publish_assets,  \* self.publish_assets
    publish_images,  \* self.publish_images
    commands,        \* build commands registered with the build tool
    run_log,         \* subprocesses started through _run, in order
    archive,         \* entries of the primary archive make_zip wrote
    lib_archive,     \* entries of the secondary (libraries) archive
    zip_state,       \* "idle" until make_zip has run, then "done"
    q_source,        \* argument of the last zip_file_dest call
    q_dest,          \* its result
    r_params,        \* the image action Image registered, NoImage before
    r_pc,            \* where render_image is: "idle", "render", "montage",
                     \* "resize", "done", "failed"
    r_i,             \* index of the next frame, or of the next target
    r_frames,        \* the local list frames
    r_cmds           \* the subprocesses render_image ran, with their outcome

declVars == <<zip_dirs, publish_assets, publish_images, commands>>
envVars == <<prev_ref, model_dir, build_opts, library_files>>
filterVars == <<allowed, diff_out, log>>
zipVars == <<archive, lib_archive, zip_state>>
queryVars == <<q_source, q_dest>>
renderVars == <<r_params, r_pc, r_i, r_frames, r_cmds>>
vars == <<envVars, filterVars, aborted, last_op, ncalls, declVars, run_log,
          zipVars, queryVars, renderVars>>

(***************************************************************************)
(* Python values                                                           *)
(***************************************************************************)
\* None, as a value no string equals
None == <<"<None>">>

\* bool(v) of a str or None
Truthy(v) == v # None /\ v # <<>>

\* s.startswith(p)
StartsWith(s, p) == Len(s) >= Len(p) /\ SubSeq(s, 1, Len(p)) = p

\* s.endswith(p)
EndsWith(s, p) == Len(s) >= Len(p) /\ SubSeq(s, Len(s) - Len(p) + 1, Len(s)) = p

\* atom in s, for a pattern that is one atom
Contains(s, atom) == \E i \in 1..Len(s) : s[i] = atom

\* index of the last "/" of s, 0 when there is none
LastSlash(s) ==
    IF \E i \in 1..Len(s) : s[i] = "/"
    THEN CHOOSE i \in 1..Len(s) : s[i] = "/" /\ \A j \in (i+1)..Len(s) : s[j] # "/"
    ELSE 0

\* Path(s).name, for a path with no trailing "/"
PathName(s) == SubSeq(s, LastSlash(s) + 1, Len(s))

\* str(Path(s).parent), for a relative path with no trailing "/"
PathParent(s) == IF LastSlash(s) = 0 THEN <<".">> ELSE SubSeq(s, 1, LastSlash(s) - 1)

\* value with the first of prefixes it starts with removed
RECURSIVE _remove_prefix(_, _)
_remove_prefix(value, prefixes) ==
    IF prefixes = <<>> THEN value
    ELSE IF StartsWith(value, Head(prefixes))
         THEN SubSeq(value, Len(Head(prefixes)) + 1, Len(value))
         ELSE _remove_prefix(value, Tail(prefixes))

(***************************************************************************)
(* Directories and the files the operations are called with                *)
(***************************************************************************)
\* str(self.src_dir) and str(self.build_dir): the build directory is the
\* variant directory "build" of the model directory (MainBuilder.build)
SrcDir == model_dir
BuildDir == IF model_dir = <<".">> THEN <<"build">> ELSE model_dir \o <<"/", "build">>
LIBRARIES_ZIP == <<"libraries.zip">>

DirParts == {<<>>, <<"x", "/">>, <<"images", "/">>, <<"images", "/", "readme", "/">>}
Stems == {<<"x">>, <<"readme">>, <<"images", "x">>}
Exts == {<<>>, <<".stl">>, <<".pdf">>}

\* paths relative to the model directory
RelPaths == {d \o s \o e : d \in DirParts, s \in Stems, e \in Exts}
StlPaths == {p \in RelPaths : EndsWith(p, <<".stl">>)}
PdfPaths == {p \in RelPaths : EndsWith(p, <<".pdf">>)}

\* str(node) of a source: under the build directory, under the source
\* directory, or under neither
SourcePaths ==
    {BuildDir \o <<"/">> \o p : p \in RelPaths}
        \cup {SrcDir \o <<"/">> \o p : p \in RelPaths}
        \cup RelPaths

\* zip_dir arguments: "" and a name
ZipDirArgs == {<<>>, <<"x">>}

EmptyMap == [p \in {} |-> <<>>]

\* d[k] = v
MapSet(d, k, v) == [p \in DOMAIN d \cup {k} |-> IF p = k THEN v ELSE d[p]]

\* d.get(k)
MapGet(d, k) == IF k \in DOMAIN d THEN d[k] ELSE None

(***************************************************************************)
(* zip_file_dest                                                           *)
(***************************************************************************)
ZipPrefixes == <<BuildDir \o <<"/">>, SrcDir \o <<"/">> >>

dest_stripped(source) == _remove_prefix(source, ZipPrefixes)

\* zip_file_dest keeping the directories of an .stl or .pdf
zip_file_dest_keeps_dirs(source) ==
    LET stripped == dest_stripped(source)
        dest_path == PathName(stripped)
        zip_dir == MapGet(zip_dirs, stripped)
    IN  IF Truthy(zip_dir) THEN zip_dir \o <<"/">> \o dest_path
        ELSE IF StartsWith(stripped, <<"images">>)
             THEN IF Contains(stripped, "readme") THEN None
                  ELSE <<"images", "/">> \o dest_path
        ELSE IF EndsWith(stripped, <<".stl">>) THEN <<"stl", "/">> \o stripped
        ELSE IF EndsWith(stripped, <<".pdf">>) THEN <<"doc", "/">> \o stripped
        ELSE stripped

\* zip_file_dest without the test for "readme"
zip_file_dest_keeps_readme(source) ==
    LET stripped == dest_stripped(source)
        dest_path == PathName(stripped)
        zip_dir == MapGet(zip_dirs, stripped)
    IN  IF Truthy(zip_dir) THEN zip_dir \o <<"/">> \o dest_path
        ELSE IF StartsWith(stripped, <<"images">>) THEN <<"images", "/">> \o dest_path
        ELSE IF EndsWith(stripped, <<".stl">>) THEN <<"stl", "/">> \o dest_path
        ELSE IF EndsWith(stripped, <<".pdf">>) THEN <<"doc", "/">> \o dest_path
        ELSE stripped

zip_file_dest(source) ==
    LET stripped == dest_stripped(source)
        dest_path == PathName(stripped)
        zip_dir == MapGet(zip_dirs, stripped)
    IN  IF Truthy(zip_dir) THEN zip_dir \o <<"/">> \o dest_path
        ELSE IF StartsWith(stripped, <<"images">>)
             THEN IF Contains(stripped, "readme") THEN None
                  ELSE <<"images", "/">> \o dest_path
        ELSE IF EndsWith(stripped, <<".stl">>) THEN <<"stl", "/">> \o dest_path
        ELSE IF EndsWith(stripped, <<".pdf">>) THEN <<"doc", "/">> \o dest_path
        ELSE stripped

(***************************************************************************)
(* sorted(): str order, atom by atom                                       *)
(***************************************************************************)
AtomOrder ==
    <<".", ".pdf", ".scad", ".stl", "/", "SConscript", "build", "images", "lib",
      "m", "publish", "readme", "sub", "x">>

Rank(a) == CHOOSE i \in 1..Len(AtomOrder) : AtomOrder[i] = a

RECURSIVE StrLess(_, _)
StrLess(a, b) ==
    IF b = <<>> THEN FALSE
    ELSE IF a = <<>> THEN TRUE
    ELSE IF Head(a) = Head(b) THEN StrLess(Tail(a), Tail(b))
    ELSE Rank(Head(a)) < Rank(Head(b))

RECURSIVE Sorted(_)
Sorted(S) ==
    IF S = {} THEN <<>>
    ELSE LET least == CHOOSE x \in S : \A y \in S \ {x} : StrLess(x, y)
         IN  <<least>> \o Sorted(S \ {least})

SeqSet(s) == {s[i] : i \in 1..Len(s)}

(***************************************************************************)
(* The change filter                                                       *)
(***************************************************************************)
\* paths git diff --name-only can list
ChangedPaths ==
    {<<"m", "/", "x", ".scad">>, <<"m", "/", "SConscript">>,
     <<"m", "/", "sub", "/", "x", ".scad">>, <<"m", "/", "x", ".stl">>,
     <<"x", ".scad">>, <<"SConscript">>}

\* what subprocess.run(check=True) can do: return the output, raise
\* CalledProcessError on a non-zero exit, raise OSError when the program
\* cannot be started
RunOutcomes(lines) ==
    {[kind |-> "ok", lines |-> S] : S \in SUBSET lines}
        \cup {[kind |-> "exit", lines |-> {}], [kind |-> "oserror", lines |-> {}]}

NoQuery == [kind |-> "none", lines |-> {}]

GitDiffCmd == <<"git", "diff">>
GitLsFilesCmd == <<"git", "ls-files">>

\* whether evaluating _allowed_by_ref_filter runs the query
FilterQueries == allowed = "unset" /\ Truthy(prev_ref)

\* the outcomes to consider for the evaluation
FilterOutcomes == IF FilterQueries THEN RunOutcomes(ChangedPaths) ELSE {NoQuery}

\* fn counts as a design file or a build description
IsDesignChange(fn) == EndsWith(fn, <<".scad">>) \/ EndsWith(fn, <<"/", "SConscript">>)

ChangedDirs(lines) == {PathParent(fn) : fn \in {l \in lines : IsDesignChange(l)}}

\* the value of the property, "raise" when the exception leaves it
FilterResult(out) ==
    IF allowed # "unset" THEN allowed
    ELSE IF ~Truthy(prev_ref) THEN "yes"
    ELSE IF out.kind = "ok"
         THEN IF model_dir \notin ChangedDirs(out.lines) THEN "no" ELSE "yes"
    ELSE IF out.kind = "exit" THEN "yes"
    ELSE "raise"

FilterLog(out) ==
    IF ~FilterQueries THEN <<>>
    ELSE IF out.kind = "ok" /\ model_dir \in ChangedDirs(out.lines)
         THEN <<"Including model directory">>
    ELSE IF out.kind = "exit" THEN <<"Ignoring git diff error">>
    ELSE <<>>

\* the property's effect on the cache, the log and the subprocess log
\* (functools.cached_property stores nothing when the getter raises)
EvalFilter(out) ==
    /\ allowed' = IF FilterResult(out) = "raise" THEN "unset" ELSE FilterResult(out)
    /\ diff_out' = IF FilterQueries THEN out ELSE diff_out
    /\ log' = log \o FilterLog(out)

FilterRuns == IF FilterQueries THEN <<GitDiffCmd>> ELSE <<>>

\* a ref_filter that never skips
ref_filter_never_skips(result) == FALSE

\* ref_filter: the wrapped function is not called
ref_filter_skips(result) == result = "no"

(***************************************************************************)
(* Declarations                                                            *)
(***************************************************************************)
PRINTABLES_TARGETS == {"printables", "zip"}

Cmd(kind, target, sources) == [kind |-> kind, target |-> target, sources |-> sources]

\* target_filter(PRINTABLES_TARGETS)
target_filter_allows(required) ==
    build_opts.clean \/ \E t \in required : t \in build_opts.targets

\* lines git ls-files -- images/publish can list
TrackedLines ==
    {<<"images", "/", "publish", "/", "x">>,
     <<"images", "/", "publish", "/", "sub", "/", "x">>,
     <<"images", "/", "publish", "/", "readme">>}

\* src_dir.glob("*.scad", strings=True), as the nodes File() makes of them
ScadOnDisk == {SrcDir \o <<"/", "x", ".scad">>}

\* build_dir.glob("*" + ext, ondisk=False): the declared targets of that
\* extension directly in the build directory
BuildGlob(kind, ext) ==
    {BuildDir \o <<"/">> \o c.target :
        c \in {d \in commands : d.kind = kind /\ LastSlash(d.target) = 0
                                  /\ EndsWith(d.target, ext)}}

\* the sources add_printables_zip_targets collects, given publish_images
ZipSources(images) ==
    Sorted(ScadOnDisk
             \cup BuildGlob("doc", <<".pdf">>)
             \cup BuildGlob("openscad", <<".stl">>)
             \cup images
             \cup {SrcDir \o <<"/">> \o f : f \in publish_assets}
             \cup library_files)

ZipTarget == BuildDir \o <<"/", "printables.zip">>

\* add_printables_zip_targets, given publish_images
PrintablesCommands(images) ==
    IF target_filter_allows(PRINTABLES_TARGETS)
    THEN {Cmd("zip", ZipTarget, ZipSources(images))}
    ELSE {}

\* the build descriptions are being read: nothing raised, no action has run
Reading == aborted = "no" /\ zip_state = "idle" /\ q_source = None

\* add_default_targets
AddDefaultTargets(maxCalls) ==
    /\ Reading /\ ncalls < maxCalls
    /\ \E out \in FilterOutcomes, ls \in RunOutcomes(TrackedLines) :
        /\ EvalFilter(out)
        /\ IF FilterResult(out) = "raise"
           THEN /\ aborted' = "git diff"
                /\ run_log' = run_log \o FilterRuns
                /\ UNCHANGED declVars
           ELSE IF ref_filter_skips(FilterResult(out))
           THEN /\ run_log' = run_log \o FilterRuns
                /\ UNCHANGED <<aborted, declVars>>
           ELSE /\ run_log' = run_log \o FilterRuns \o <<GitLsFilesCmd>>
                /\ IF ls.kind = "ok"
                   THEN LET images == publish_images
                                        \cup {SrcDir \o <<"/">> \o l : l \in ls.lines}
                        IN  /\ publish_images' = images
                            /\ commands' = commands \cup PrintablesCommands(images)
                            /\ UNCHANGED <<aborted, zip_dirs, publish_assets>>
                   ELSE /\ aborted' = "git ls-files"
                        /\ UNCHANGED declVars
    /\ last_op' = "add_default_targets"
    /\ ncalls' = ncalls + 1
    /\ UNCHANGED <<envVars, zipVars, queryVars, renderVars>>

\* Asset(f, zip_dir=z)
AssetBody(f, z) ==
    /\ publish_assets' = publish_assets \cup {f}
    /\ zip_dirs' = MapSet(zip_dirs, f, z)
    /\ UNCHANGED <<publish_images, commands>>

Asset(files, maxCalls) ==
    /\ Reading /\ ncalls < maxCalls
    /\ \E f \in files, z \in ZipDirArgs : AssetBody(f, z)
    /\ last_op' = "Asset"
    /\ ncalls' = ncalls + 1
    /\ UNCHANGED <<envVars, filterVars, aborted, run_log, zipVars, queryVars, renderVars>>

\* Source(f)
Source(files, maxCalls) ==
    /\ Reading /\ ncalls < maxCalls
    /\ \E f \in files : AssetBody(f, <<"source">>)
    /\ last_op' = "Source"
    /\ ncalls' = ncalls + 1
    /\ UNCHANGED <<envVars, filterVars, aborted, run_log, zipVars, queryVars, renderVars>>

\* STL(stl_file, model_file, zip_dir=z)
STL(files, maxCalls) ==
    /\ Reading /\ ncalls < maxCalls
    /\ \E out \in FilterOutcomes, f \in files, z \in ZipDirArgs \cup {None} :
        /\ EvalFilter(out)
        /\ run_log' = run_log \o FilterRuns
        /\ IF FilterResult(out) = "raise"
           THEN aborted' = "git diff" /\ UNCHANGED declVars
           ELSE IF ref_filter_skips(FilterResult(out))
           THEN UNCHANGED <<aborted, declVars>>
           ELSE /\ commands' = commands \cup {Cmd("openscad", f, <<>>)}
                /\ zip_dirs' = IF Truthy(z) THEN MapSet(zip_dirs, f, z) ELSE zip_dirs
                /\ UNCHANGED <<aborted, publish_assets, publish_images>>
    /\ last_op' = "STL"
    /\ ncalls' = ncalls + 1
    /\ UNCHANGED <<envVars, zipVars, queryVars, renderVars>>

\* Document(target, source)
Document(files, maxCalls) ==
    /\ Reading /\ ncalls < maxCalls
    /\ \E out \in FilterOutcomes, f \in files :
        /\ EvalFilter(out)
        /\ run_log' = run_log \o FilterRuns
        /\ IF FilterResult(out) = "raise"
           THEN aborted' = "git diff" /\ UNCHANGED declVars
           ELSE IF ref_filter_skips(FilterResult(out))
           THEN UNCHANGED <<aborted, declVars>>
           ELSE /\ commands' = commands \cup {Cmd("doc", f, <<>>)}
                /\ UNCHANGED <<aborted, zip_dirs, publish_assets, publish_images>>
    /\ last_op' = "Document"
    /\ ncalls' = ncalls + 1
    /\ UNCHANGED <<envVars, zipVars, queryVars, renderVars>>

(***************************************************************************)
(* make_zip                                                                *)
(***************************************************************************)
Entry(name, kind, src) == [name |-> name, kind |-> kind, src |-> src]

\* the temporary file the secondary archive is written to
LibrariesZipTmp == <<"tmp", "/", "libraries.zip">>

\* no source is taken for a library file
IsLibrarySource_never(ss) == FALSE

\* ss in self.library_files
IsLibrarySource(ss) == ss \in library_files

\* the entries the loop over the sources writes
RECURSIVE WriteSources(_)
WriteSources(sources) ==
    IF sources = <<>> THEN <<>>
    ELSE LET ss == Head(sources)
             zdest == zip_file_dest(ss)
         IN  IF IsLibrarySource(ss) THEN WriteSources(Tail(sources))
             ELSE IF ~Truthy(zdest) THEN WriteSources(Tail(sources))
             ELSE <<Entry(zdest, "file", ss)>> \o WriteSources(Tail(sources))

\* the entries of the secondary archive
RECURSIVE WriteLibraries(_)
WriteLibraries(libs) ==
    IF libs = <<>> THEN <<>>
    ELSE <<Entry(_remove_prefix(Head(libs), ZipPrefixes), "file", Head(libs))>>
             \o WriteLibraries(Tail(libs))

\* ZipFile.read(name): the entry written last under that name
ZipRead(entries, name) ==
    IF \E i \in 1..Len(entries) : entries[i].name = name
    THEN LET last == CHOOSE i \in 1..Len(entries) :
                        /\ entries[i].name = name
                        /\ \A j \in (i+1)..Len(entries) : entries[j].name # name
         IN  entries[last].src
    ELSE None

ZipCommands == {c \in commands : c.kind = "zip"}

\* the build tool runs the registered archive command
MakeZip ==
    /\ Reading
    /\ \E c \in ZipCommands :
        /\ lib_archive' = IF library_files # {}
                          THEN WriteLibraries(Sorted(library_files)) ELSE <<>>
        /\ archive' = (IF library_files # {}
                       THEN <<Entry(LIBRARIES_ZIP, "zip", LibrariesZipTmp)>>
                       ELSE <<>>) \o WriteSources(c.sources)
    /\ zip_state' = "done"
    /\ last_op' = "make_zip"
    /\ UNCHANGED <<envVars, filterVars, aborted, ncalls, declVars, run_log, queryVars, renderVars>>

\* a call of zip_file_dest on its own
ZipFileDestCall ==
    /\ Reading
    /\ \E s \in SourcePaths :
        /\ q_source' = s
        /\ q_dest' = zip_file_dest(s)
    /\ last_op' = "zip_file_dest"
    /\ UNCHANGED <<envVars, filterVars, aborted, ncalls, declVars, run_log, zipVars,
                   renderVars>>

(***************************************************************************)
(* Image and render_image                                                  *)
(***************************************************************************)
IMAGES_TARGETS == {"images"} \cup PRINTABLES_TARGETS
IMAGE_RENDER_SIZE == <<"1200", "x", "900">>
ImagePaths == <<"readme", "publish">>
IMAGE_TARGETS == [p \in {"readme", "publish"} |->
                     IF p = "readme" THEN <<"400", "x", "300">> ELSE IMAGE_RENDER_SIZE]

\* the width whatever part is asked for
SplitX_width(size, i) == size[1]

\* size.split("x")[i], counted from 0
SplitX(size, i) == size[2 * i + 1]

\* a file render_image names: a model file, a frame, the montage, a target
File(kind, n) == [kind |-> kind, n |-> n]

\* no image action registered; form and given are stl_vals as Image got it
NoImage ==
    [form |-> "", given |-> 0, n |-> 0, defs |-> <<>>, k |-> 0, suffix |-> "",
     tile |-> <<>>, delay |-> ""]

\* the forms of stl_vals: None, one dict, a list of n dicts that differ, a
\* list of n empty dicts
StlValsForms == {"none", "dict", "list", "empties"}

\* stl_vals_list as Image builds it: one entry per parameter set, each the
\* number of the set, 0 standing for the empty set of defines
StlValsList(form, n) ==
    IF form = "none" THEN <<0>>
    ELSE IF form = "dict" THEN <<1>>
    ELSE IF n = 0 THEN <<0>>
    ELSE IF form = "empties" THEN [i \in 1..n |-> 0]
    ELSE [i \in 1..n |-> i]

\* _openscad_var_args(frame_stl_vals or {}): no argument for an empty set
_openscad_var_args(vals) == IF vals = 0 THEN <<>> ELSE <<"-D", ToString(vals)>>

\* one subprocess run by _run, with what subprocess.run did
Run(prog, inputs, output, opts, rc) ==
    [prog |-> prog, inputs |-> inputs, output |-> output, opts |-> opts, rc |-> rc]

\* what subprocess.run(check=True) can do with a command
RunResults == {"ok", "exit", "oserror"}

\* a _run that raises nothing
RunRaises_never(rc) == FALSE

\* _run(check=True) raises
RunRaises(rc) == rc # "ok"

\* a montage whenever there are several frames
MontageNeeded_any(frames, suffix) == Len(frames) > 1

\* len(frames) > 1 and target[0].suffix != ".gif"
MontageNeeded(frames, suffix) == Len(frames) > 1 /\ suffix # ".gif"

\* ceil(n / 2)
CeilHalf(n) == (n + 1) \div 2

\* the number a decimal string of a command line names
Num(s) == CHOOSE n \in {1, 2, 3, 4, 5, 300, 400, 900, 1200} : ToString(n) = s

\* ceil(a / b)
CeilDiv(a, b) == (a + b - 1) \div b

\* the image the model compiler writes for --imgsize=<w>,<h>: w by h pixels
RenderedSize(opts) == <<Num(opts[2]), Num(opts[4])>>

\* the grid montage lays n images on, <<columns, rows>>: "-tile x<r>" names
\* the rows, "-tile <c>x" the columns, the other side is as long as needed
TileGrid(tile, n) ==
    IF tile[1] = "x" THEN <<CeilDiv(n, Num(tile[2])), Num(tile[2])>>
    ELSE <<Num(tile[1]), CeilDiv(n, Num(tile[1]))>>

\* the image montage writes from n images of one size with -border 0 and
\* -geometry +0+0: the tiles keep their size and touch
MontageSize(size, tile, n) ==
    <<TileGrid(tile, n)[1] * size[1], TileGrid(tile, n)[2] * size[2]>>

\* the image convert writes for "-resize x<h>": h pixels high, the width
\* following the aspect ratio of the image read
ResizedSize(size, size_arg) ==
    <<(size[1] * Num(size_arg[2])) \div size[2], Num(size_arg[2])>>

MaxFrames == 3
MaxModels == 2

\* Image(target, model_file, stl_vals, delay=, tile=)
Image ==
    /\ Reading /\ r_pc = "idle" /\ r_params = NoImage
    /\ \E form \in StlValsForms, n \in 0..MaxFrames, k \in 1..MaxModels,
          suffix \in {".png", ".gif"}, tile \in {<<>>, <<"2", "x">>},
          delay \in {"75", "20"} :
        /\ form \in {"none", "dict"} => n = 0
        /\ IF target_filter_allows(IMAGES_TARGETS)
           THEN /\ r_params' = [form |-> form, given |-> n,
                                n |-> Len(StlValsList(form, n)),
                                defs |-> StlValsList(form, n), k |-> k,
                                suffix |-> suffix, tile |-> tile, delay |-> delay]
                /\ r_pc' = "render"
                /\ commands' = commands
                       \cup {Cmd("image", <<"x", suffix>>,
                                 [j \in 1..k |-> <<"model", "/", "x", ".scad">>])}
                /\ publish_images' = publish_images
                       \cup {SrcDir \o <<"/", "images", "/", "publish", "/", "x", suffix>>}
           ELSE UNCHANGED <<r_params, r_pc, commands, publish_images>>
    /\ last_op' = "Image"
    /\ UNCHANGED <<envVars, filterVars, aborted, ncalls, zip_dirs, publish_assets,
                   run_log, zipVars, queryVars, r_i, r_frames, r_cmds>>

\* where render_image goes once the frames are rendered
AfterFrames(frames) ==
    IF MontageNeeded(frames, r_params.suffix) THEN "montage" ELSE "resize"

\* one pass of the loop rendering the frames
RenderFrame ==
    /\ r_pc = "render" /\ r_i < r_params.n
    /\ \E rc \in RunResults :
        LET fn == File("frame", r_i)
            frames == Append(r_frames, fn)
            cmd == Run("openscad", <<File("model", r_i % r_params.k)>>, fn,
                       <<"--imgsize", IMAGE_RENDER_SIZE[1], ",", IMAGE_RENDER_SIZE[3]>>
                           \o _openscad_var_args(r_params.defs[r_i + 1]), rc)
        IN  /\ r_frames' = frames
            /\ r_cmds' = Append(r_cmds, cmd)
            /\ IF RunRaises(rc)
               THEN r_pc' = "failed" /\ r_i' = r_i
               ELSE IF r_i + 1 < r_params.n
               THEN r_pc' = "render" /\ r_i' = r_i + 1
               ELSE r_pc' = AfterFrames(frames) /\ r_i' = 0
    /\ last_op' = "render_image"
    /\ UNCHANGED <<envVars, filterVars, aborted, ncalls, declVars, run_log, zipVars,
                   queryVars, r_params>>

\* the montage of the frames
Montage ==
    /\ r_pc = "montage"
    /\ \E rc \in RunResults :
        LET tile == IF ~Truthy(r_params.tile)
                    THEN <<"x", ToString(CeilHalf(Len(r_frames)))>>
                    ELSE r_params.tile
            montage_fn == File("montage", 0)
            cmd == Run("montage", r_frames, montage_fn, <<"-tile">> \o tile, rc)
        IN  /\ r_cmds' = Append(r_cmds, cmd)
            /\ IF RunRaises(rc)
               THEN r_pc' = "failed" /\ r_frames' = r_frames
               ELSE r_pc' = "resize" /\ r_frames' = <<montage_fn>>
    /\ r_i' = 0
    /\ last_op' = "render_image"
    /\ UNCHANGED <<envVars, filterVars, aborted, ncalls, declVars, run_log, zipVars,
                   queryVars, r_params>>

\* one pass of the loop over the targets
Resize ==
    /\ r_pc = "resize" /\ r_i < Len(ImagePaths)
    /\ \E rc \in RunResults :
        LET tt == ImagePaths[r_i + 1]
            size_arg == <<"x", SplitX(IMAGE_TARGETS[tt], 1)>>
            gif == IF r_params.suffix = ".gif"
                   THEN <<"-loop", "0", "-delay", r_params.delay>> ELSE <<>>
            cmd == Run("convert", r_frames, File(tt, 0),
                       <<"-resize">> \o size_arg \o gif, rc)
        IN  /\ r_cmds' = Append(r_cmds, cmd)
            /\ IF RunRaises(rc)
               THEN r_pc' = "failed" /\ r_i' = r_i
               ELSE IF r_i + 1 < Len(ImagePaths)
               THEN r_pc' = "resize" /\ r_i' = r_i + 1
               ELSE r_pc' = "done" /\ r_i' = r_i + 1
    /\ last_op' = "render_image"
    /\ UNCHANGED <<envVars, filterVars, aborted, ncalls, declVars, run_log, zipVars,
                   queryVars, r_params, r_frames>>

(***************************************************************************)
(* Specifications                                                          *)
(***************************************************************************)
MaxDecl == 1
MaxCalls == 2

NoTargets == [targets |-> {}, clean |-> FALSE]
ZipTargets == [targets |-> {"zip"}, clean |-> FALSE]

LibraryFiles == {model_dir \o <<"/", "lib", "/", "x", ".scad">>}

\* the state after ModelBuilder.__init__
InitBuilder ==
    /\ allowed = "unset"
    /\ diff_out = NoQuery
    /\ log = <<>>
    /\ aborted = "no"
    /\ last_op = "init"
    /\ ncalls = 0
    /\ zip_dirs = EmptyMap
    /\ publish_assets = {}
    /\ publish_images = {}
    /\ commands = {}
    /\ run_log = <<>>
    /\ archive = <<>>
    /\ lib_archive = <<>>
    /\ zip_state = "idle"
    /\ q_source = None
    /\ q_dest = None
    /\ r_params = NoImage
    /\ r_pc = "idle"
    /\ r_i = 0
    /\ r_frames = <<>>
    /\ r_cmds = <<>>

\* zip_file_dest after declarations
InitDest ==
    /\ prev_ref = <<>>
    /\ model_dir = <<"m">>
    /\ build_opts = NoTargets
    /\ library_files = {}
    /\ InitBuilder

NextDest ==
    \/ Asset(RelPaths, MaxDecl)
    \/ Source(RelPaths, MaxDecl)
    \/ STL(StlPaths, MaxDecl)
    \/ ZipFileDestCall

SpecDest == InitDest /\ [][NextDest]_vars

\* the archive of one model directory
InitZip ==
    /\ prev_ref = <<>>
    /\ model_dir = <<"m">>
    /\ build_opts \in {NoTargets, ZipTargets}
    /\ library_files \in SUBSET LibraryFiles
    /\ InitBuilder

\* the files the build description of the archived directory declares
ZipAssets ==
    {<<"x">>, <<"x", "/", "x">>, <<"images", "/", "x">>,
     <<"images", "/", "readme", "/", "x">>}
ZipStl == {<<"x", ".stl">>, <<"images", "x", ".stl">>, <<"x", "/", "x", ".stl">>}
ZipPdf == {<<"x", ".pdf">>, <<"readme", ".pdf">>}

NextZip ==
    \/ Asset(ZipAssets, MaxDecl)
    \/ Source(ZipAssets, MaxDecl)
    \/ STL(ZipStl, MaxDecl)
    \/ Document(ZipPdf, MaxDecl)
    \/ AddDefaultTargets(MaxDecl + 1)
    \/ MakeZip

SpecZip == InitZip /\ [][NextZip]_vars

\* the change filter and the operations it guards
FilterStl == {<<"x", ".stl">>}
FilterPdf == {<<"x", ".pdf">>}
FilterAssets == {<<"x">>}

InitFilter ==
    /\ prev_ref \in {<<>>, <<"r">>}
    /\ model_dir \in {<<"m">>, <<".">>}
    /\ build_opts \in {NoTargets, ZipTargets}
    /\ library_files = {}
    /\ InitBuilder

NextFilter ==
    \/ AddDefaultTargets(MaxCalls)
    \/ STL(FilterStl, MaxCalls)
    \/ Document(FilterPdf, MaxCalls)
    \/ Asset(FilterAssets, MaxCalls)

SpecFilter == InitFilter /\ [][NextFilter]_vars

\* one image action
ImagesTargets == [targets |-> {"images"}, clean |-> FALSE]

InitRender ==
    /\ prev_ref = <<>>
    /\ model_dir = <<"m">>
    /\ build_opts \in {NoTargets, ImagesTargets}
    /\ library_files = {}
    /\ InitBuilder

NextRender ==
    \/ Image
    \/ RenderFrame
    \/ Montage
    \/ Resize

SpecRender == InitRender /\ [][NextRender]_vars

(***************************************************************************)
(* Claims about zip_file_dest (SpecDest)                                   *)
(***************************************************************************)
\* rel lies in the directory images
UnderImages(rel) == Len(rel) >= 2 /\ rel[1] = "images" /\ rel[2] = "/"

\* a non-empty zip_dir is declared for rel
Overridden(rel) == rel \in DOMAIN zip_dirs /\ zip_dirs[rel] # <<>>

\* the destination the five ordered rules give
RuleDest(source) ==
    LET rel == dest_stripped(source)
        base == PathName(rel)
    IN  IF Overridden(rel) THEN zip_dirs[rel] \o <<"/">> \o base
        ELSE IF UnderImages(rel)
             THEN IF Contains(rel, "readme") THEN None ELSE <<"images", "/">> \o base
        ELSE IF EndsWith(rel, <<".stl">>) THEN <<"stl", "/">> \o base
        ELSE IF EndsWith(rel, <<".pdf">>) THEN <<"doc", "/">> \o base
        ELSE rel

\* C1: zip_file_dest returns what the five rules, applied in order, give:
\* the declared override, else images/ (nothing for a readme) for a path
\* under images, else stl/, else doc/, else the relative path.
C1_Original == q_source # None => q_dest = RuleDest(q_source)

\* C3 as stated: every path ending in .stl goes to stl/<basename> and every
\* path ending in .pdf to doc/<basename>, whatever was declared.
C3_Original ==
    q_source # None =>
        /\ EndsWith(q_source, <<".stl">>) => q_dest = <<"stl", "/">> \o PathName(q_source)
        /\ EndsWith(q_source, <<".pdf">>) => q_dest = <<"doc", "/">> \o PathName(q_source)

\* C3: a path ending in .stl (.pdf) that has no non-empty zip_dir declared
\* for it and whose relative path does not begin with "images" goes to
\* stl/<basename> (doc/<basename>), at any depth and whatever is declared
\* for other files.
C3_Amended ==
    q_source # None =>
        LET rel == dest_stripped(q_source)
        IN  (~Overridden(rel) /\ ~StartsWith(rel, <<"images">>)) =>
                /\ EndsWith(q_source, <<".stl">>)
                       => q_dest = <<"stl", "/">> \o PathName(q_source)
                /\ EndsWith(q_source, <<".pdf">>)
                       => q_dest = <<"doc", "/">> \o PathName(q_source)

\* an .stl two directories below the build directory, with an override
\* declared for another file, went to stl/<basename>
C3_Witness ==
    /\ q_source # None
    /\ EndsWith(q_source, <<".stl">>)
    /\ StartsWith(q_source, BuildDir \o <<"/">>)
    /\ LastSlash(dest_stripped(q_source)) > 0
    /\ \E k \in DOMAIN zip_dirs : zip_dirs[k] # <<>>
    /\ q_dest = <<"stl", "/">> \o PathName(q_source)

(***************************************************************************)
(* Claims about make_zip (SpecZip)                                         *)
(***************************************************************************)
\* the sources the archive command was registered with
ZipInputs == UNION {SeqSet(c.sources) : c \in ZipCommands}

FileEntries == {i \in 1..Len(archive) : archive[i].kind = "file"}

\* the source has an entry of its own in the primary archive
Written(s) == \E i \in FileEntries : archive[i].src = s

\* a source under images whose relative path contains "readme"
ReadmeImage(s) ==
    UnderImages(dest_stripped(s)) /\ Contains(dest_stripped(s), "readme")

\* C2 as stated: no source under images that contains "readme" is written,
\* whatever overrides are declared.
C2_Original ==
    zip_state = "done" => \A s \in ZipInputs : ReadmeImage(s) => ~Written(s)

\* C2: no source under images that contains "readme" and has no non-empty
\* zip_dir declared for it is written to the archive.
C2_Amended ==
    zip_state = "done" =>
        \A s \in ZipInputs :
            (ReadmeImage(s) /\ ~Overridden(dest_stripped(s))) => ~Written(s)

\* an archive with entries, made from sources among which a readme image
\* without override was left out
C2_Witness ==
    /\ zip_state = "done"
    /\ FileEntries # {}
    /\ \E s \in ZipInputs :
        ReadmeImage(s) /\ dest_stripped(s) \notin DOMAIN zip_dirs /\ ~Written(s)

\* C4: every source written to the archive is read back, at the destination
\* zip_file_dest gives for it, with its own content (a file's content is
\* identified with the file).
C4_Original ==
    zip_state = "done" =>
        \A i \in FileEntries :
            ZipRead(archive, zip_file_dest(archive[i].src)) = archive[i].src

QualifyingChange(fn) ==
    /\ EndsWith(fn, <<".scad">>) \/ PathName(fn) = <<"SConscript">>
    /\ PathParent(fn) = model_dir

\* C6: without a reference the directory is included; with one and a
\* successful query it is included exactly when a changed path is a design
\* file or a build description in the model directory.
C6_Original ==
    allowed # "unset" =>
        /\ ~Truthy(prev_ref) => allowed = "yes"
        /\ (Truthy(prev_ref) /\ diff_out.kind = "ok") =>
               (allowed = "yes" <=> \E fn \in diff_out.lines : QualifyingChange(fn))

\* C7: a failed query is logged and the directory included, and the failure
\* never ends the build.
C7_Original ==
    /\ aborted # "git diff"
    /\ diff_out.kind \in {"exit", "oserror"} =>
           (allowed = "yes" /\ "Ignoring git diff error" \in SeqSet(log))

FilteredOps == {"add_default_targets", "STL", "Document"}

LsFilesRuns == Cardinality({i \in 1..Len(run_log) : run_log[i] = GitLsFilesCmd})

\* C8: a call of add_default_targets, STL or Document in an excluded
\* directory registers no command, does not run the tracked-images query
\* and leaves publish_images, publish_assets and zip_dirs as they were.
C8_Skipped ==
    [][(last_op' \in FilteredOps /\ Truthy(prev_ref) /\ allowed' = "no") =>
           /\ UNCHANGED <<commands, publish_images, publish_assets, zip_dirs>>
           /\ LsFilesRuns' = LsFilesRuns]_vars

\* an excluded directory after several calls, the last one
\* add_default_targets with the archive target requested
C8_Witness ==
    /\ allowed = "no"
    /\ Truthy(prev_ref)
    /\ ncalls >= 2
    /\ last_op = "add_default_targets"
    /\ build_opts = ZipTargets
    /\ commands = {}

(***************************************************************************)
(* Claims about render_image (SpecRender)                                  *)
(***************************************************************************)
IsRender(c) == c.prog = "openscad"

\* the frames rendered so far, in the order they were rendered
RenderedFrames ==
    LET renders == SelectSeq(r_cmds, IsRender)
    IN  [i \in 1..Len(renders) |-> renders[i].output]

Montages == {i \in 1..Len(r_cmds) : r_cmds[i].prog = "montage"}
Resizes == {i \in 1..Len(r_cmds) : r_cmds[i].prog = "convert"}

\* several frames and a target that is not animated
StaticSeveral == r_params.n > 1 /\ r_params.suffix # ".gif"

\* C9: with several frames and a static target, one montage of all the
\* frames completes before any resize and every resize reads the montage
\* alone; with one frame or an animated target there is no montage and
\* every resize reads all the frames in render order, with -loop and
\* -delay for an animated target.
C9_Montage ==
    /\ Cardinality(Montages) <= 1
    /\ ~StaticSeveral => Montages = {}
    /\ (r_pc = "done" /\ StaticSeveral) => Cardinality(Montages) = 1
    /\ \A i \in Resizes :
        IF StaticSeveral
        THEN \E j \in Montages :
                /\ j < i
                /\ r_cmds[j].rc = "ok"
                /\ r_cmds[j].inputs = RenderedFrames
                /\ Len(RenderedFrames) = r_params.n
                /\ r_cmds[i].inputs = <<r_cmds[j].output>>
        ELSE /\ r_cmds[i].inputs = RenderedFrames
             /\ Len(RenderedFrames) = r_params.n
             /\ r_params.suffix = ".gif" =>
                    EndsWith(r_cmds[i].opts, <<"-loop", "0", "-delay", r_params.delay>>)

\* two or more frames of a static target were montaged and both targets
\* resized
C9_Witness ==
    /\ r_pc = "done"
    /\ r_params.n >= 2
    /\ r_params.suffix = ".png"
    /\ Cardinality(Resizes) = Len(ImagePaths)

\* C10: a command that fails is the last one render_image runs: nothing
\* runs after it, and it is not run again.
C10_Abort ==
    /\ \A i \in 1..(Len(r_cmds) - 1) : r_cmds[i].rc = "ok"
    /\ r_pc = "failed" <=> (r_cmds # <<>> /\ r_cmds[Len(r_cmds)].rc # "ok")
    /\ r_pc = "done" => \A i \in 1..Len(r_cmds) : r_cmds[i].rc = "ok"

\* the montage of several rendered frames failed
C10_Witness ==
    /\ r_pc = "failed"
    /\ Len(r_cmds) >= 3
    /\ r_cmds[Len(r_cmds)].prog = "montage"

Renders == {i \in 1..Len(r_cmds) : IsRender(r_cmds[i])}

\* the frames the parameter sets given to Image ask for: one per set, one
\* when None, a single dict or an empty list is given
ExpectedFrames ==
    IF r_params.form \in {"none", "dict"} \/ r_params.given = 0
    THEN 1 ELSE r_params.given

\* the defines of parameter set i, counted from 0, as given to Image
ExpectedDefs(i) ==
    IF r_params.form = "dict" THEN <<"-D", "1">>
    ELSE IF r_params.form = "list" /\ r_params.given > 0 THEN <<"-D", ToString(i + 1)>>
    ELSE <<>>

\* the geometry a resize hands to convert, and the tile of a montage
GeometryArg(i) == <<r_cmds[i].opts[2], r_cmds[i].opts[3]>>

\* the resize reads the montage
ReadsMontage(i) == \E j \in Montages : r_cmds[i].inputs = <<r_cmds[j].output>>

\* the size of what resize i reads: the montage or the frames
InputSize(i) ==
    IF ReadsMontage(i)
    THEN LET j == CHOOSE j \in Montages : r_cmds[i].inputs = <<r_cmds[j].output>>
         IN  MontageSize(RenderedSize(r_cmds[1].opts), GeometryArg(j),
                         Len(r_cmds[j].inputs))
    ELSE RenderedSize(r_cmds[1].opts)

\* the size of the image resize i writes
ResizeResult(i) == ResizedSize(InputSize(i), GeometryArg(i))

\* the target resolution of a declared output
TargetResolution(p) == <<Num(IMAGE_TARGETS[p][1]), Num(IMAGE_TARGETS[p][3])>>

\* one frame per parameter set, frame i from model file i modulo the number
\* of model files with the defines of set i at 1200 by 900, and every
\* frame rendered before a montage or a resize starts
FramesFirst ==
    /\ Cardinality(Renders) <= ExpectedFrames
    /\ \A i \in Renders :
        /\ i <= ExpectedFrames
        /\ r_cmds[i].inputs = <<File("model", (i - 1) % r_params.k)>>
        /\ r_cmds[i].output = File("frame", i - 1)
        /\ RenderedSize(r_cmds[i].opts) = <<1200, 900>>
        /\ SubSeq(r_cmds[i].opts, 5, Len(r_cmds[i].opts)) = ExpectedDefs(i - 1)
    /\ \A i \in Montages \cup Resizes :
        /\ Renders = 1..ExpectedFrames
        /\ \A j \in Renders : j < i /\ r_cmds[j].rc = "ok"
    /\ r_pc = "done" => Renders = 1..ExpectedFrames

\* a completed action ends with one resize for images/readme and one for
\* images/publish, and no output is resized twice
ResizedOnce ==
    /\ \A i, j \in Resizes : r_cmds[i].output = r_cmds[j].output => i = j
    /\ \A i \in Resizes : r_cmds[i].output.kind \in DOMAIN IMAGE_TARGETS
    /\ r_pc = "done" =>
        /\ \A p \in DOMAIN IMAGE_TARGETS :
               \E i \in Resizes : r_cmds[i].output = File(p, 0)
        /\ \A i \in Resizes : \A j \in 1..Len(r_cmds) : j > i => j \in Resizes

\* C11 as stated: one frame per parameter set, rendered from model file
\* i modulo the number of model files with the defines of set i at the
\* working render size, all before any montage or resize; the action ends
\* with one resize per declared output, whose result has that output's own
\* target resolution.
C11_Original ==
    /\ FramesFirst
    /\ ResizedOnce
    /\ \A i \in Resizes :
           r_cmds[i].rc = "ok" => ResizeResult(i) = TargetResolution(r_cmds[i].output.kind)

\* C11: the same for the frames and the order; each declared output is
\* resized once, to the height of its own target resolution, the width
\* following the aspect ratio of what is resized: the result has the target
\* resolution when the frames themselves are resized, not a montage.
C11_Amended ==
    /\ FramesFirst
    /\ ResizedOnce
    /\ \A i \in Resizes :
        LET p == r_cmds[i].output.kind
        IN  /\ GeometryArg(i) = <<"x", IMAGE_TARGETS[p][3]>>
            /\ r_cmds[i].rc = "ok" =>
                /\ ResizeResult(i)[2] = TargetResolution(p)[2]
                /\ ~ReadsMontage(i) => ResizeResult(i) = TargetResolution(p)

\* three parameter sets rendered from two model files, montaged and both
\* outputs resized
C11_Witness ==
    /\ r_pc = "done"
    /\ r_params.form = "list" /\ r_params.given >= 3
    /\ r_params.k = 2
    /\ Cardinality(Renders) = r_params.given
    /\ Montages # {}
    /\ Cardinality(Resizes) = Cardinality(DOMAIN IMAGE_TARGETS)

====
